---- MODULE Spec2Model ----
(***************************************************************************)
(* Model of clean_text.py: TextCorrector.split_text_into_chunks,           *)
(* TextCorrector.correct_text, TextCorrector.correct_full_text and main.   *)
(*                                                                         *)
(* A text is a sequence of one-character strings.  The segmenter is a pure *)
(* function and is modelled by operators that follow the code loop by      *)
(* loop; correct_full_text is a state machine with one step per blocking   *)
(* call of the correction service.                                         *)
(***************************************************************************)
EXTENDS Integers, Sequences, FiniteSets, TLC

\* ---------------------------------------------------------------- bounds
MaxLen == 5        \* longest input text of a run with the identity corrector
MaxRunLen == 3     \* longest input text of a run against the service
MaxChars == 3      \* largest max_chars
MaxBadCfgLen == 1  \* longest input text of a run with an out-of-range temperature

\* ------------------------------------------------------------ characters
Whitespace == {" ", "\n", "\t"}
Punct == {".", "!", "?"}
Alphabet == {"a", ".", " ", "\n"}

TextsUpTo(n) == UNION {[1..k -> Alphabet] : k \in 0..n}

\* ------------------------------------------------ str helpers of Python
RECURSIVE lstrip(_)
lstrip(s) ==
    IF s # <<>> /\ Head(s) \in Whitespace THEN lstrip(Tail(s)) ELSE s

RECURSIVE rstrip(_)
rstrip(s) ==
    IF s # <<>> /\ s[Len(s)] \in Whitespace
    THEN rstrip(SubSeq(s, 1, Len(s) - 1))
    ELSE s

\* str.strip()
strip(s) == rstrip(lstrip(s))

\* text.split('\n\n'): scan left to right, cur is the piece being built
RECURSIVE split_paragraphs(_, _)
split_paragraphs(s, cur) ==
    IF s = <<>> THEN <<cur>>
    ELSE IF Len(s) >= 2 /\ s[1] = "\n" /\ s[2] = "\n"
         THEN <<cur>> \o split_paragraphs(SubSeq(s, 3, Len(s)), <<>>)
         ELSE split_paragraphs(Tail(s), Append(cur, Head(s)))

\* Variant: the separator is the punctuation mark together with the
\* whitespace (no lookbehind), so the mark is dropped with it.
RECURSIVE split_sentences_lossy(_, _)
split_sentences_lossy(s, cur) ==
    IF s = <<>> THEN <<cur>>
    ELSE IF Len(s) >= 2 /\ s[1] \in Punct /\ s[2] \in Whitespace
         THEN <<cur>> \o split_sentences_lossy(lstrip(Tail(s)), <<>>)
         ELSE split_sentences_lossy(Tail(s), Append(cur, Head(s)))

\* re.split(r'(?<=[.!?])\s+', paragraph): a maximal whitespace run that
\* directly follows one of . ! ? is a separator and is dropped
RECURSIVE split_sentences(_, _)
split_sentences(s, cur) ==
    IF s = <<>> THEN <<cur>>
    ELSE IF cur # <<>> /\ cur[Len(cur)] \in Punct /\ Head(s) \in Whitespace
         THEN <<cur>> \o split_sentences(lstrip(s), <<>>)
         ELSE split_sentences(Tail(s), Append(cur, Head(s)))

\* "\n\n".join(parts)
RECURSIVE join(_)
join(parts) ==
    IF parts = <<>> THEN <<>>
    ELSE IF Len(parts) = 1 THEN parts[1]
    ELSE parts[1] \o <<"\n", "\n">> \o join(Tail(parts))

\* ------------------------------------------------ split_text_into_chunks
\* The accumulation state of the loops: the finished chunks and the buffer.
EmptyAcc == [chunks |-> <<>>, current_chunk |-> <<>>]

\* Variant: the overflow test measures the candidate unit alone.
accumulate_unit_only(st, unit, sep, max_chars) ==
    IF st.current_chunk # <<>> /\ Len(unit) > max_chars
    THEN [chunks |-> Append(st.chunks, strip(st.current_chunk)),
          current_chunk |-> unit]
    ELSE [chunks |-> st.chunks,
          current_chunk |-> IF st.current_chunk # <<>>
                            THEN st.current_chunk \o sep \o unit
                            ELSE unit]

\* One candidate unit against the buffer (the if/else repeated at each tier)
accumulate(st, unit, sep, max_chars) ==
    IF st.current_chunk # <<>> /\ Len(st.current_chunk \o unit) > max_chars
    THEN [chunks |-> Append(st.chunks, strip(st.current_chunk)),
          current_chunk |-> unit]
    ELSE [chunks |-> st.chunks,
          current_chunk |-> IF st.current_chunk # <<>>
                            THEN st.current_chunk \o sep \o unit
                            ELSE unit]

Min(a, b) == IF a < b THEN a ELSE b

\* Variant: the slice is one character short, sentence[i:i + max_chars - 1].
slice_short(sentence, i, max_chars) ==
    SubSeq(sentence, i + 1, Min(i + max_chars - 1, Len(sentence)))

\* sentence[i:i + max_chars] with a 0-based i
slice(sentence, i, max_chars) ==
    SubSeq(sentence, i + 1, Min(i + max_chars, Len(sentence)))

\* for i in range(0, len(sentence), max_chars)
RECURSIVE cut_loop(_, _, _, _)
cut_loop(st, sentence, i, max_chars) ==
    IF i >= Len(sentence) THEN st
    ELSE cut_loop(accumulate(st, slice(sentence, i, max_chars), <<" ">>, max_chars),
                  sentence, i + max_chars, max_chars)

\* for sentence in sentences
RECURSIVE sentence_loop(_, _, _)
sentence_loop(st, sentences, max_chars) ==
    IF sentences = <<>> THEN st
    ELSE LET sentence == Head(sentences)
             st2 == IF strip(sentence) = <<>> THEN st
                    ELSE IF Len(sentence) > max_chars
                         THEN cut_loop(st, sentence, 0, max_chars)
                         ELSE accumulate(st, sentence, <<" ">>, max_chars)
         IN sentence_loop(st2, Tail(sentences), max_chars)

\* for paragraph in paragraphs
RECURSIVE paragraph_loop(_, _, _)
paragraph_loop(st, paragraphs, max_chars) ==
    IF paragraphs = <<>> THEN st
    ELSE LET paragraph == Head(paragraphs)
             st2 == IF Len(paragraph) > max_chars
                    THEN sentence_loop(st, split_sentences(paragraph, <<>>), max_chars)
                    ELSE accumulate(st, paragraph, <<"\n", "\n">>, max_chars)
         IN paragraph_loop(st2, Tail(paragraphs), max_chars)

\* the final flush of a non-blank buffer
final_flush(st) ==
    IF strip(st.current_chunk) # <<>>
    THEN Append(st.chunks, strip(st.current_chunk))
    ELSE st.chunks

split_text_into_chunks(t, max_chars) ==
    final_flush(paragraph_loop(EmptyAcc, split_paragraphs(t, <<>>), max_chars))

\* The same loops, as the sequence of their accumulation steps: for each
\* candidate unit its tier, its offset in the sentence when it is a hard-cut
\* slice, and the accumulation state before and after it.
Step(tier, offset, unit, st, sep, max_chars) ==
    [tier |-> tier, offset |-> offset, unit |-> unit, before |-> st,
     after |-> accumulate(st, unit, sep, max_chars)]

\* the accumulation state after steps, started from st
StateAfter(steps, st) ==
    IF steps = <<>> THEN st ELSE steps[Len(steps)].after

RECURSIVE cut_steps(_, _, _, _)
cut_steps(st, sentence, i, max_chars) ==
    IF i >= Len(sentence) THEN <<>>
    ELSE LET step == Step("slice", i, slice(sentence, i, max_chars), st,
                          <<" ">>, max_chars)
         IN <<step>> \o cut_steps(step.after, sentence, i + max_chars, max_chars)

RECURSIVE sentence_steps(_, _, _)
sentence_steps(st, sentences, max_chars) ==
    IF sentences = <<>> THEN <<>>
    ELSE LET sentence == Head(sentences)
             steps == IF strip(sentence) = <<>> THEN <<>>
                      ELSE IF Len(sentence) > max_chars
                           THEN cut_steps(st, sentence, 0, max_chars)
                           ELSE <<Step("sentence", 0, sentence, st,
                                       <<" ">>, max_chars)>>
         IN steps \o sentence_steps(StateAfter(steps, st), Tail(sentences),
                                    max_chars)

RECURSIVE paragraph_steps(_, _, _)
paragraph_steps(st, paragraphs, max_chars) ==
    IF paragraphs = <<>> THEN <<>>
    ELSE LET paragraph == Head(paragraphs)
             steps == IF Len(paragraph) > max_chars
                      THEN sentence_steps(st, split_sentences(paragraph, <<>>),
                                          max_chars)
                      ELSE <<Step("paragraph", 0, paragraph, st,
                                  <<"\n", "\n">>, max_chars)>>
         IN steps \o paragraph_steps(StateAfter(steps, st), Tail(paragraphs),
                                     max_chars)

split_steps(t, max_chars) ==
    paragraph_steps(EmptyAcc, split_paragraphs(t, <<>>), max_chars)

\* ---------------------------------------------------------- correct_text
\* What the correction service does with one request.
FailureKinds == {"timeout", "connection", "http_status", "bad_json",
                 "no_choices", "empty_choices", "no_message", "bad_content"}

\* The answers the service can give to a request that carries segment:
\* a failure, or a success whose content is the segment itself, a rewritten
\* text with surrounding whitespace, or blank text.
Responses(segment) ==
    [kind : FailureKinds, content : {<<>>}]
    \cup [kind : {"ok"}, content : {segment, <<" ", "b", "\n">>, <<" ">>}]

IdentityResponse(segment) == [kind |-> "ok", content |-> segment]

\* The body of the try block: the value returned, or the exception raised.
try_body(segment, resp) ==
    CASE resp.kind = "timeout"       -> [exc |-> "Timeout", value |-> <<>>]
      [] resp.kind = "connection"    -> [exc |-> "ConnectionError", value |-> <<>>]
      [] resp.kind = "http_status"   -> [exc |-> "HTTPError", value |-> <<>>]
      [] resp.kind = "bad_json"      -> [exc |-> "ValueError", value |-> <<>>]
      [] resp.kind = "no_choices"    -> [exc |-> "none", value |-> segment]
      [] resp.kind = "empty_choices" -> [exc |-> "none", value |-> segment]
      [] resp.kind = "no_message"    -> [exc |-> "KeyError", value |-> <<>>]
      [] resp.kind = "bad_content"   -> [exc |-> "AttributeError", value |-> <<>>]
      [] resp.kind = "ok"            -> [exc |-> "none", value |-> strip(resp.content)]

\* The exception classes named by the except clauses, as sets of the
\* concrete exceptions they catch.
TimeoutClass == {"Timeout"}
RequestExceptionClass == {"Timeout", "ConnectionError", "HTTPError"}
KeyIndexErrorClass == {"KeyError", "IndexError"}
ExceptionClass == {"Timeout", "ConnectionError", "HTTPError", "KeyError",
                   "IndexError", "ValueError", "AttributeError", "TypeError"}

\* Variant: no final "except Exception" clause.
except_clauses_no_catch_all(exc, segment) ==
    IF exc \in TimeoutClass THEN [raised |-> FALSE, value |-> segment]
    ELSE IF exc \in RequestExceptionClass THEN [raised |-> FALSE, value |-> segment]
    ELSE IF exc \in KeyIndexErrorClass THEN [raised |-> FALSE, value |-> segment]
    ELSE [raised |-> TRUE, value |-> <<>>]

\* Variant: the Timeout clause returns an empty text instead of the segment.
except_clauses_timeout_blank(exc, segment) ==
    IF exc \in TimeoutClass THEN [raised |-> FALSE, value |-> <<>>]
    ELSE IF exc \in ExceptionClass THEN [raised |-> FALSE, value |-> segment]
    ELSE [raised |-> TRUE, value |-> <<>>]

\* The except clauses, tried in order; an exception none of them names
\* leaves correct_text.
except_clauses(exc, segment) ==
    IF exc \in TimeoutClass THEN [raised |-> FALSE, value |-> segment]
    ELSE IF exc \in RequestExceptionClass THEN [raised |-> FALSE, value |-> segment]
    ELSE IF exc \in KeyIndexErrorClass THEN [raised |-> FALSE, value |-> segment]
    ELSE IF exc \in ExceptionClass THEN [raised |-> FALSE, value |-> segment]
    ELSE [raised |-> TRUE, value |-> <<>>]

correct_text(segment, resp) ==
    LET b == try_body(segment, resp)
    IN IF b.exc = "none"
       THEN [raised |-> FALSE, value |-> b.value]
       ELSE except_clauses(b.exc, segment)

\* ----------------------------------------------------- correct_full_text
\* Variant: a result equal to its chunk is not stored.
loop_body_skip_unchanged(results, chunk, resp) ==
    LET res == correct_text(chunk, resp)
    IN IF res.raised \/ res.value = chunk THEN results
       ELSE Append(results, res.value)

\* Variant: a result equal to its chunk replaces the list instead of being
\* appended to it.
loop_body_reset(results, chunk, resp) ==
    LET res == correct_text(chunk, resp)
    IN IF res.raised \/ res.value = chunk THEN <<chunk>>
       ELSE Append(results, res.value)

\* The try/except around the call in the loop body: the new result list.
loop_body(results, chunk, resp) ==
    LET res == correct_text(chunk, resp)
    IN IF res.raised THEN Append(results, chunk)
       ELSE Append(results, res.value)

\* ------------------------------------------------------------------ main
\* --temperature in tenths: the default 0.2, and a value outside 0.0-1.0
Temperatures == {2, 15}

ValidTemperature(t) == 0 <= t /\ t <= 10

NoFile == [written |-> FALSE, content |-> <<>>]

VARIABLES
    corrector,         \* "service", or "identity" for a no-op corrector
    input_file,        \* content of the input file
    temperature,       \* args.temperature, in tenths
    text,              \* the text read from the input file
    max_chars,
    pc,                \* position in main and correct_full_text
    error,             \* the error that ended the run, or "none"
    output,            \* the output file
    run,               \* 1, or 2 when the pipeline runs on its own output
    first_output,      \* the text returned by run 1
    chunks,
    i,                 \* number of chunks the loop has taken
    corrected_chunks,
    final_text,
    calls,             \* chunk numbers the corrector was called with, in order
    inflight,          \* requests sent and not yet answered
    last,              \* the last call of correct_text: its segment, the kind
                       \* of answer it got, and what it returned or raised
    log_timeout,       \* "Timeout après ..." records
    log_corrected,     \* "Segment i corrigé avec succès" records
    log_unchanged,     \* "Segment i inchangé" records
    flip,              \* chunk number at which the paired run's answer may differ
    corrected_chunks2  \* results of the paired run over the same chunks

vars == <<corrector, input_file, temperature, text, max_chars, pc, error,
          output, run, first_output, chunks, i,
          corrected_chunks, final_text, calls, inflight, last, log_timeout,
          log_corrected, log_unchanged, flip, corrected_chunks2>>

NoLast == [kind |-> "none", segment |-> <<>>, raised |-> FALSE, value |-> <<>>]

Init ==
    /\ corrector \in {"service", "identity"}
    /\ input_file \in TextsUpTo(IF corrector = "identity" THEN MaxLen ELSE MaxRunLen)
    /\ temperature \in (IF Len(input_file) <= MaxBadCfgLen
                        THEN Temperatures ELSE {2})
    /\ text = <<>>
    /\ max_chars \in 1..MaxChars
    /\ pc = "main"
    /\ error = "none"
    /\ output = NoFile
    /\ run = 1
    /\ first_output = <<>>
    /\ chunks = <<>>
    /\ i = 0
    /\ corrected_chunks = <<>>
    /\ final_text = <<>>
    /\ calls = <<>>
    /\ inflight = 0
    /\ last = NoLast
    /\ log_timeout = 0
    /\ log_corrected = 0
    /\ log_unchanged = 0
    /\ flip = 0
    /\ corrected_chunks2 = <<>>

\* main returns or calls sys.exit: the state of the process is gone; what
\* remains is the exit status and the files.
ProcessEnds ==
    /\ text' = <<>>
    /\ chunks' = <<>>
    /\ i' = 0
    /\ corrected_chunks' = <<>>
    /\ final_text' = <<>>
    /\ calls' = <<>>
    /\ inflight' = 0
    /\ last' = NoLast
    /\ log_timeout' = 0
    /\ log_corrected' = 0
    /\ log_unchanged' = 0
    /\ flip' = 0
    /\ corrected_chunks2' = <<>>

\* The input file does not exist: sys.exit(1) before the try block.
InputMissing ==
    /\ pc = "main"
    /\ pc' = "exit_error"
    /\ error' = "missing_input"
    /\ ProcessEnds
    /\ UNCHANGED <<corrector, input_file, temperature, max_chars, output, run,
                   first_output>>

\* input_path.read_text(encoding="utf-8") raises (undecodable bytes, I/O
\* error): the except clause of main logs it and exits.
ReadFails ==
    /\ pc = "main"
    /\ pc' = "exit_error"
    /\ error' = "read_error"
    /\ ProcessEnds
    /\ UNCHANGED <<corrector, input_file, temperature, max_chars, output, run,
                   first_output>>

\* The text is read, the TextCorrector is built from the arguments as they
\* are, and correct_full_text is entered.
ReadInput ==
    /\ pc = "main"
    /\ text' = input_file
    /\ pc' = "start"
    /\ UNCHANGED <<corrector, input_file, temperature, max_chars, error, output,
                   run, first_output, chunks, i, corrected_chunks, final_text,
                   calls, inflight, last, log_timeout, log_corrected,
                   log_unchanged, flip, corrected_chunks2>>

\* A statement of correct_full_text outside correct_text raises, or the
\* process is interrupted (also while a request is in flight): the run
\* ends there.
UnexpectedError ==
    /\ pc \in {"start", "loop", "in_call"}
    /\ pc' = "exit_error"
    /\ error' = "unexpected"
    /\ ProcessEnds
    /\ UNCHANGED <<corrector, input_file, temperature, max_chars, output, run,
                   first_output>>

\* Variant: the write sits inside the loop and saves the results so far.
WriteOutputEarly ==
    /\ pc = "loop"
    /\ output' = [written |-> TRUE, content |-> join(corrected_chunks)]
    /\ UNCHANGED <<corrector, input_file, temperature, text, max_chars, pc,
                   error, run, first_output, chunks, i, corrected_chunks,
                   final_text, calls, inflight, last, log_timeout,
                   log_corrected, log_unchanged, flip, corrected_chunks2>>

\* output_path.write_text(corrected_text, encoding="utf-8")
WriteOutput ==
    /\ pc = "done"
    /\ output' = [written |-> TRUE, content |-> final_text]
    /\ pc' = "exit_ok"
    /\ ProcessEnds
    /\ UNCHANGED <<corrector, input_file, temperature, max_chars, error, run,
                   first_output>>

\* write_text cannot open the output file: the except clause of main logs
\* it and exits.
WriteFails ==
    /\ pc = "done"
    /\ pc' = "exit_error"
    /\ error' = "write_error"
    /\ ProcessEnds
    /\ UNCHANGED <<corrector, input_file, temperature, max_chars, output, run,
                   first_output>>

\* chunks = self.split_text_into_chunks(text, max_chars=max_chars)
Segment ==
    /\ pc = "start"
    /\ chunks' = split_text_into_chunks(text, max_chars)
    /\ flip' \in IF corrector = "service" THEN 0..Len(chunks') ELSE {0}
    /\ pc' = "loop"
    /\ UNCHANGED <<corrector, input_file, temperature, error, output, text,
                   max_chars, run, first_output, i,
                   corrected_chunks, final_text, calls, inflight, last,
                   log_timeout, log_corrected, log_unchanged, corrected_chunks2>>

\* The loop takes the next chunk and correct_text posts the request.
CallCorrector ==
    /\ pc = "loop"
    /\ i < Len(chunks)
    /\ i' = i + 1
    /\ calls' = Append(calls, i + 1)
    /\ inflight' = inflight + 1
    /\ pc' = "in_call"
    /\ UNCHANGED <<corrector, input_file, temperature, error, output, text,
                   max_chars, run, first_output, chunks,
                   corrected_chunks, final_text, last, log_timeout,
                   log_corrected, log_unchanged, flip, corrected_chunks2>>

\* The request is answered (or fails); correct_text returns and the loop
\* body stores and logs the result.
CorrectorReturns ==
    /\ pc = "in_call"
    /\ LET chunk == chunks[i]
       IN \E resp \in (IF corrector = "identity" THEN {IdentityResponse(chunk)}
                       ELSE Responses(chunk)) :
            /\ corrected_chunks' = loop_body(corrected_chunks, chunk, resp)
            /\ last' = [kind |-> resp.kind,
                        segment |-> chunk,
                        raised |-> correct_text(chunk, resp).raised,
                        value |-> correct_text(chunk, resp).value]
            /\ log_timeout' = log_timeout + (IF resp.kind = "timeout" THEN 1 ELSE 0)
            /\ LET res == correct_text(chunk, resp)
               IN /\ log_corrected' = log_corrected
                        + (IF ~res.raised /\ res.value # chunk THEN 1 ELSE 0)
                  /\ log_unchanged' = log_unchanged
                        + (IF ~res.raised /\ res.value = chunk THEN 1 ELSE 0)
            /\ \E resp2 \in (IF i = flip THEN Responses(chunk) ELSE {resp}) :
                 corrected_chunks2' = loop_body(corrected_chunks2, chunk, resp2)
    /\ inflight' = inflight - 1
    /\ pc' = "loop"
    /\ UNCHANGED <<corrector, input_file, temperature, error, output, text,
                   max_chars, run, first_output, chunks, i,
                   final_text, calls, flip>>

\* final_text = "\n\n".join(corrected_chunks); return final_text
Reassemble ==
    /\ pc = "loop"
    /\ i >= Len(chunks)
    /\ final_text' = join(corrected_chunks)
    /\ pc' = "done"
    /\ UNCHANGED <<corrector, input_file, temperature, error, output, text,
                   max_chars, run, first_output, chunks, i,
                   corrected_chunks, calls, inflight, last, log_timeout,
                   log_corrected, log_unchanged, flip, corrected_chunks2>>

\* correct_full_text is called again, on the text the first run returned.
Rerun ==
    /\ pc = "done"
    /\ corrector = "identity"
    /\ run = 1
    /\ run' = 2
    /\ first_output' = final_text
    /\ text' = final_text
    /\ pc' = "start"
    /\ chunks' = <<>>
    /\ i' = 0
    /\ corrected_chunks' = <<>>
    /\ corrected_chunks2' = <<>>
    /\ final_text' = <<>>
    /\ calls' = <<>>
    /\ last' = NoLast
    /\ log_timeout' = 0
    /\ log_corrected' = 0
    /\ log_unchanged' = 0
    /\ UNCHANGED <<corrector, input_file, temperature, error, output,
                   max_chars, inflight, flip>>

Next ==
    \/ InputMissing
    \/ ReadFails
    \/ ReadInput
    \/ UnexpectedError
    \/ WriteOutput
    \/ WriteFails
    \/ Segment
    \/ CallCorrector
    \/ CorrectorReturns
    \/ Reassemble
    \/ Rerun

Spec == Init /\ [][Next]_vars

\* ---------------------------------------------------------------- claims
IsInk(c) == c \notin Whitespace

\* the non-whitespace characters of s, in order
NonWs(s) == SelectSeq(s, IsInk)

Ceil(a, b) == (a + b - 1) \div b

\* t has one paragraph and one sentence: no "\n\n" and no sentence boundary
SingleSentence(t) ==
    /\ Len(split_paragraphs(t, <<>>)) = 1
    /\ Len(split_sentences(t, <<>>)) = 1

\* the k-th (1-based) run of n consecutive characters of t
Piece(t, k, n) ==
    SubSeq(t, (k - 1) * n + 1, IF k * n < Len(t) THEN k * n ELSE Len(t))

Pieces(t, n) == [k \in 1..Ceil(Len(t), n) |-> Piece(t, k, n)]

\* C1: every segment returned by split_text_into_chunks(text, max_chars) has
\* length <= max_chars.
C1_SegmentsWithinMaxChars ==
    pc # "start" => \A k \in 1..Len(chunks) : Len(chunks[k]) <= max_chars

\* C2: the segments joined in order with the double newline (identity
\* corrector) have exactly the input's non-whitespace characters, in the
\* same order: nothing lost, duplicated, reordered or added.
C2_ContentPreserved ==
    /\ pc # "start" => NonWs(join(chunks)) = NonWs(text)
    /\ (pc = "done" /\ corrector = "identity") => NonWs(final_text) = NonWs(text)

C2_Witness ==
    /\ pc = "done"
    /\ corrector = "identity"
    /\ run = 1
    /\ Len(chunks) >= 2
    /\ final_text # text
    /\ \E k \in 1..Len(text) : text[k] = "."
    /\ \E k \in 1..Len(text) : text[k] = "a"

\* C3: correct_text never raises, and on every failure (timeout, transport
\* failure, non-success status, payload without 'choices' or with an empty
\* list, any other unexpected condition) it returns exactly the segment it
\* was given.
C3_FailureReturnsSegment ==
    /\ ~last.raised
    /\ last.kind \in FailureKinds => last.value = last.segment

C3_Witness ==
    /\ last.kind = "bad_content"
    /\ last.segment # <<>>
    /\ last.value = last.segment

\* C4: the corrector is called exactly once per segment, in segment order,
\* with at most one call in flight, and the run goes through all n segments
\* whatever the earlier outcomes: at the end there are n calls and n
\* results, result k being a result of segment k.
C4_OnceEachInOrder ==
    /\ inflight \in {0, 1}
    /\ inflight = 1 <=> pc = "in_call"
    /\ Len(calls) = i
    /\ \A k \in 1..Len(calls) : calls[k] = k
    /\ Len(corrected_chunks) = i - inflight
    /\ pc = "done" => /\ Len(calls) = Len(chunks)
                      /\ Len(corrected_chunks) = Len(chunks)
    /\ \A k \in 1..Len(corrected_chunks) :
          \E resp \in Responses(chunks[k]) :
              corrected_chunks[k] = correct_text(chunks[k], resp).value

C4_Witness ==
    /\ pc = "done"
    /\ corrector = "service"
    /\ Len(chunks) >= 2
    /\ log_timeout >= 1
    /\ last.kind = "ok"
    /\ last.value # last.segment

\* C5: two runs over the same segments whose answers differ only at segment
\* flip give the same result content for every other segment.
C5_FailureIsolated ==
    /\ Len(corrected_chunks2) = Len(corrected_chunks)
    /\ \A j \in 1..Len(corrected_chunks) :
          j # flip => corrected_chunks2[j] = corrected_chunks[j]

C5_Witness ==
    /\ pc = "done"
    /\ Len(chunks) >= 2
    /\ flip \in 1..(Len(chunks) - 1)
    /\ corrected_chunks[flip] = chunks[flip]
    /\ corrected_chunks2[flip] # chunks[flip]

\* C6: no segment returned by split_text_into_chunks is empty after trimming.
C6_NoBlankSegment ==
    pc # "start" => \A k \in 1..Len(chunks) : strip(chunks[k]) # <<>>

\* C7: the result content of a non-empty segment is never empty, whatever
\* the service answers.
C7_ResultNeverEmpty ==
    \A k \in 1..Len(corrected_chunks) :
        chunks[k] # <<>> => corrected_chunks[k] # <<>>

\* C8 as stated: when every call times out, the final output equals the
\* input text, every segment is reported not corrected and none corrected.
C8_TimeoutsGiveInput ==
    (pc = "done" /\ corrector = "service" /\ Len(chunks) >= 1
        /\ log_timeout = Len(chunks))
    => /\ final_text = text
       /\ log_corrected = 0
       /\ log_unchanged = Len(chunks)

\* C8 as amended: when every call times out, the final output is the
\* segments joined with the double newline, equal to the input modulo
\* whitespace; every result is its segment, every segment is logged as
\* unchanged and none as corrected.
C8_TimeoutsGiveJoinedSegments ==
    (pc = "done" /\ corrector = "service" /\ Len(chunks) >= 1
        /\ log_timeout = Len(chunks))
    => /\ final_text = join(chunks)
       /\ NonWs(final_text) = NonWs(text)
       /\ corrected_chunks = chunks
       /\ log_corrected = 0
       /\ log_unchanged = Len(chunks)

C8_Witness ==
    /\ pc = "done"
    /\ corrector = "service"
    /\ Len(chunks) >= 2
    /\ log_timeout = Len(chunks)
    /\ final_text # text

\* C9: with an identity corrector, running the pipeline on the output of a
\* first run gives the same output as the first run.
C9_Idempotent ==
    (run = 2 /\ pc = "done") => final_text = first_output

\* C10 as stated: a single sentence of length L > max_chars becomes exactly
\* ceil(L / max_chars) segments, the consecutive slices of max_chars
\* characters (the last possibly shorter); a unit of length exactly
\* max_chars is kept whole.
C10_HardCutPieces ==
    (pc # "start" /\ SingleSentence(text) /\ strip(text) # <<>>)
    => /\ Len(text) > max_chars => chunks = Pieces(text, max_chars)
       /\ Len(text) = max_chars => chunks = <<text>>

\* C10 as amended: the same, for a sentence none of whose slices begins or
\* ends with whitespace (each flushed segment is trimmed), and for a unit of
\* length max_chars that does not begin or end with whitespace.
C10_HardCutTrimmedPieces ==
    (pc # "start" /\ SingleSentence(text)
        /\ \A k \in 1..Ceil(Len(text), max_chars) :
              strip(Piece(text, k, max_chars)) = Piece(text, k, max_chars))
    => /\ Len(text) > max_chars =>
            /\ Len(chunks) = Ceil(Len(text), max_chars)
            /\ chunks = Pieces(text, max_chars)
            /\ \A k \in 1..(Len(chunks) - 1) : Len(chunks[k]) = max_chars
            /\ Len(chunks[Len(chunks)]) <= max_chars
       /\ Len(text) = max_chars => chunks = <<text>>

C10_Witness ==
    /\ pc = "loop"
    /\ run = 1
    /\ SingleSentence(text)
    /\ Len(text) = 5
    /\ max_chars = 2
    /\ chunks = Pieces(text, max_chars)
    /\ <<Len(chunks[1]), Len(chunks[2]), Len(chunks[3])>> = <<2, 2, 1>>

C12_InvalidConfigFatal ==
    ~ValidTemperature(temperature) =>
        /\ pc \in {"main", "exit_error"}
        /\ chunks = <<>>
        /\ calls = <<>>
        /\ ~output.written

\* C13: at every point of split_text_into_chunks the accumulation buffer
\* holds at most max_chars + 2 characters, so every returned segment has
\* length <= max_chars + 2; and every hard-cut slice but the first of its
\* sentence flushes the buffer and starts a new one, so two slices of one
\* sentence are never in the same segment.
C13_BufferBound ==
    (pc = "loop" /\ i = 0) =>
        LET steps == split_steps(text, max_chars)
        IN /\ final_flush(StateAfter(steps, EmptyAcc)) = chunks
           /\ \A k \in 1..Len(steps) :
                 Len(steps[k].after.current_chunk) <= max_chars + 2
           /\ \A k \in 1..Len(chunks) : Len(chunks[k]) <= max_chars + 2
           /\ \A k \in 1..Len(steps) :
                 (steps[k].tier = "slice" /\ steps[k].offset > 0) =>
                    /\ steps[k].after.current_chunk = steps[k].unit
                    /\ steps[k].after.chunks =
                          Append(steps[k].before.chunks,
                                 strip(steps[k].before.current_chunk))

C13_Witness ==
    /\ pc = "loop"
    /\ i = 0
    /\ LET steps == split_steps(text, max_chars)
       IN /\ \E k \in 1..Len(steps) :
                Len(steps[k].after.current_chunk) = max_chars + 2
          /\ \E k \in 1..Len(steps) :
                steps[k].tier = "slice" /\ steps[k].offset > 0

====
